---- MODULE Spec2Model ----
(***************************************************************************)
(* Model of rasa/core/nlg/template.py: TemplatedNaturalLanguageGenerator.  *)
(*                                                                         *)
(* Python values are tagged records [t, v]:                                *)
(*   str  -> [t |-> "str",  v |-> sequence of tokens], a token being a     *)
(*           piece of literal text ("Hello") or a placeholder ("{name}");  *)
(*           the empty string is the empty sequence;                       *)
(*   list -> [t |-> "list", v |-> sequence of values];                     *)
(*   dict -> [t |-> "dict", v |-> function from keys to values];           *)
(*   None -> [t |-> "none", v |-> <<>>].                                   *)
(* A template variant (a dict of the catalog) and a keyword-argument dict  *)
(* are functions from field names to values.                               *)
(***************************************************************************)
EXTENDS Integers, Sequences, FiniteSets, TLC

VARIABLES templates, templates0, call, result, suitable_templates, fills

vars == <<templates, templates0, call, result, suitable_templates, fills>>

\* ------------------------------------------------------------ values

Str(s) == [t |-> "str", v |-> s]

List(s) == [t |-> "list", v |-> s]

Dict(f) == [t |-> "dict", v |-> f]

NoneV == [t |-> "none", v |-> <<>>]

\* The empty dict {}.
EmptyMap == [k \in {} |-> NoneV]

\* Python truthiness: `not x` holds of None and of the empty str, list, dict.
Falsy(x) ==
    \/ x.t = "none"
    \/ x.t \in {"str", "list"} /\ Len(x.v) = 0
    \/ x.t = "dict" /\ DOMAIN x.v = {}

\* d.get(key): the value under key, None when the key is absent.
Get(d, key) == IF key \in DOMAIN d THEN d[key] ELSE NoneV

\* d.update(u) on a copy of d: u's entries replace and extend d's.
Update(d, u) ==
    [k \in DOMAIN d \cup DOMAIN u |-> IF k \in DOMAIN u THEN u[k] ELSE d[k]]

\* ------------------------------------------------------- interpolator

\* The placeholder tokens and the variable each names.
Placeholders == {"{name}", "{city}", "{language}"}

PlaceholderName(tok) ==
    CASE tok = "{name}" -> "name"
      [] tok = "{city}" -> "city"
      [] tok = "{language}" -> "language"
      [] OTHER -> ""

\* str(value): the string form substituted for a placeholder.
PyStr(value) ==
    CASE value.t = "str" -> value.v
      [] value.t = "none" -> <<"None">>
      [] OTHER -> <<"<object>">>

RECURSIVE interpolate_text(_, _)
\* Substitute every placeholder whose name the mapping has; a placeholder
\* whose name is absent stays as literal text.
interpolate_text(tokens, values) ==
    IF tokens = <<>> THEN <<>>
    ELSE LET tok == Head(tokens)
             out == IF tok \in Placeholders /\ PlaceholderName(tok) \in DOMAIN values
                    THEN PyStr(values[PlaceholderName(tok)])
                    ELSE <<tok>>
         IN out \o interpolate_text(Tail(tokens), values)

RECURSIVE interpolate(_, _)
\* A str is substituted, a list element-wise, a dict value-wise (keys kept),
\* any other value is returned unchanged.
interpolate(value, values) ==
    CASE value.t = "str" -> Str(interpolate_text(value.v, values))
      [] value.t = "list" ->
            List([i \in 1..Len(value.v) |-> interpolate(value.v[i], values)])
      [] value.t = "dict" ->
            Dict([k \in DOMAIN value.v |-> interpolate(value.v[k], values)])
      [] OTHER -> value

\* ------------------------------------------------- objects and copies

\* A reference to a dict: where it lives (loc) and what it holds (val). A
\* variant of the catalog lives at templates[name], under a language key
\* for a language-keyed entry, at position idx; an object that is no part
\* of the catalog has idx 0.
Fresh == [name |-> "", key |-> NoneV, idx |-> 0]

CatalogObj(tpls, name, key, idx) ==
    [loc |-> [name |-> name, key |-> key, idx |-> idx],
     val |-> IF tpls[name].t = "list" THEN tpls[name].v[idx]
             ELSE tpls[name].v[key][idx]]

\* A write into the dict an object refers to, as the catalog sees it.
Store(tpls, obj) ==
    IF obj.loc.idx = 0 THEN tpls
    ELSE IF tpls[obj.loc.name].t = "list"
         THEN [tpls EXCEPT ![obj.loc.name].v[obj.loc.idx] = obj.val]
         ELSE [tpls EXCEPT ![obj.loc.name].v[obj.loc.key][obj.loc.idx] = obj.val]

\* The same object again: no copy is made.
deepcopy_alias(obj) == obj

\* copy.deepcopy: an equal object that shares nothing with the catalog.
deepcopy(obj) == [loc |-> Fresh, val |-> obj.val]

\* ------------------------------------------------ template filling

\* Slot values win over the keyword arguments.
_template_variables_slots_win(filled_slots, kwargs) ==
    Update(kwargs, IF filled_slots.t = "none" THEN EmptyMap ELSE filled_slots.v)

\* _template_variables: a copy of the slot values (empty for None), updated
\* with the keyword arguments.
_template_variables(filled_slots, kwargs) ==
    LET slots == IF filled_slots.t = "none" THEN EmptyMap ELSE filled_slots.v
        template_vars == slots
    IN Update(template_vars, kwargs)

\* The fixed list with a further field in it.
keys_to_interpolate_more ==
    <<"text", "image", "custom", "button", "attachment", "quick_replies", "metadata">>

keys_to_interpolate ==
    <<"text", "image", "custom", "button", "attachment", "quick_replies">>

\* The guard on the merged mapping is dropped.
interpolated_keys_unguarded(template, template_vars) ==
    {keys_to_interpolate[i] : i \in 1..Len(keys_to_interpolate)} \cap DOMAIN template

\* The keys the loop of _fill_template hands to the interpolator: none when
\* the merged mapping is empty, else the listed keys the template has.
interpolated_keys(template, template_vars) ==
    IF DOMAIN template_vars # {}
    THEN {key \in {keys_to_interpolate[i] : i \in 1..Len(keys_to_interpolate)} :
            key \in DOMAIN template}
    ELSE {}

\* _fill_template writes into the dict it is given: the result holds the
\* catalog as it is after the writes, the (same) object, and a record of
\* what was done (the merged mapping, the keys interpolated).
_fill_template(tpls, template, filled_slots, kwargs) ==
    LET template_vars == _template_variables(filled_slots, kwargs)
        keys == interpolated_keys(template.val, template_vars)
        val == [key \in DOMAIN template.val |->
                  IF key \in keys
                  THEN interpolate(template.val[key], template_vars)
                  ELSE template.val[key]]
        filled == [loc |-> template.loc, val |-> val]
    IN [templates |-> Store(tpls, filled),
        template |-> filled,
        fill |-> [given |-> template.val, template_vars |-> template_vars,
                  keys |-> keys, out |-> val]]

\* ---------------------------------------------- channel selection

\* `template.get("channel") == output_channel`
is_channel_template(template, output_channel) ==
    Get(template, "channel") = output_channel

\* Every template that is not channel specific counts as a default one.
is_default_template_any(template) == TRUE

\* `not template.get("channel")`
is_default_template(template) == Falsy(Get(template, "channel"))

RECURSIVE for_template(_, _, _, _, _)
\* The loop over self.templates[utter_action], from position i on.
for_template(entry, output_channel, i, channel_templates, default_templates) ==
    IF i > Len(entry)
    THEN [channel_templates |-> channel_templates,
          default_templates |-> default_templates]
    ELSE IF is_channel_template(entry[i], output_channel)
         THEN for_template(entry, output_channel, i + 1,
                           Append(channel_templates, i), default_templates)
         ELSE IF is_default_template(entry[i])
              THEN for_template(entry, output_channel, i + 1,
                                channel_templates, Append(default_templates, i))
              ELSE for_template(entry, output_channel, i + 1,
                                channel_templates, default_templates)

\* Both groups together.
prefer_channel_union(channel_templates, default_templates) ==
    channel_templates \o default_templates

\* "always prefer channel specific templates over default ones"
prefer_channel(channel_templates, default_templates) ==
    IF channel_templates # <<>> THEN channel_templates ELSE default_templates

\* _templates_for_utter_action: the positions, in catalog order, of the
\* templates that fit. Iterating a language-keyed entry (a dict) yields its
\* keys, which are strs and have no .get: AttributeError on the first one.
_templates_for_utter_action(tpls, utter_action, output_channel) ==
    LET entry == tpls[utter_action]
    IN IF entry.t = "dict"
       THEN [err |-> IF DOMAIN entry.v = {} THEN "" ELSE "AttributeError",
             list |-> <<>>]
       ELSE LET groups == for_template(entry.v, output_channel, 1, <<>>, <<>>)
            IN [err |-> "",
                list |-> prefer_channel(groups.channel_templates,
                                        groups.default_templates)]

\* ------------------------------------------------------- results

Return(val) == [kind |-> "return", err |-> "", val |-> val]

Raise(err) == [kind |-> "raise", err |-> err, val |-> NoneV]

NoResult == [kind |-> "idle", err |-> "", val |-> NoneV]

\* What a call leaves behind: the catalog, the result handed to the caller,
\* the eligible list computed (the variants, in order) and one record per
\* template filled.
Outcome(tpls, res, suitable, filled) ==
    [templates |-> tpls, result |-> res, suitable_templates |-> suitable,
     fills |-> filled]

\* `template_name in self.templates`
template_known(tpls, template_name) == template_name \in DOMAIN tpls

\* _random_template_for: every outcome np.random.choice can produce.
_random_template_for(tpls, utter_action, output_channel) ==
    IF template_known(tpls, utter_action)
    THEN LET suitable == _templates_for_utter_action(tpls, utter_action, output_channel)
             variants == [j \in 1..Len(suitable.list) |->
                            tpls[utter_action].v[suitable.list[j]]]
         IN IF suitable.err # ""
            THEN {[err |-> suitable.err, found |-> FALSE, idx |-> 0,
                   suitable |-> <<>>]}
            ELSE IF suitable.list # <<>>
                 THEN {[err |-> "", found |-> TRUE, idx |-> suitable.list[j],
                        suitable |-> variants] : j \in 1..Len(suitable.list)}
                 ELSE {[err |-> "", found |-> FALSE, idx |-> 0,
                        suitable |-> <<>>]}
    ELSE {[err |-> "", found |-> FALSE, idx |-> 0, suitable |-> <<>>]}

\* generate_from_slots: the set of outcomes, one per random choice.
generate_from_slots(tpls, template_name, filled_slots, output_channel, kwargs) ==
    {IF choice.err # ""
     THEN Outcome(tpls, Raise(choice.err), choice.suitable, <<>>)
     ELSE IF choice.found
          THEN LET source == CatalogObj(tpls, template_name, NoneV, choice.idx)
                   r == deepcopy(source)
                   f == _fill_template(tpls, r, filled_slots, kwargs)
               IN Outcome(f.templates, Return(Dict(f.template.val)),
                          choice.suitable,
                          <<[source |-> source.loc] @@ f.fill>>)
          ELSE Outcome(tpls, Return(NoneV), choice.suitable, <<>>)
     : choice \in _random_template_for(tpls, template_name, output_channel)}

\* ------------------------------------------- language-keyed path

\* `kwargs.get("language", None)`
language_of(kwargs) == IF "language" \in DOMAIN kwargs THEN kwargs["language"] ELSE NoneV

\* Only a missing or null language counts as missing; "" is let through.
language_missing_null_only(language) == language.t = "none"

\* `not language`
language_missing(language) == Falsy(language)

\* A language the entry does not have yields no variants instead of an error.
lookup_language_or_empty(entry, language) ==
    IF entry.t = "dict" /\ language \in DOMAIN entry.v
    THEN [err |-> "", list |-> entry.v[language]]
    ELSE [err |-> "", list |-> <<>>]

\* `self.templates[template_name][language]`: a list cannot be indexed by a
\* str (TypeError); a dict without the key raises KeyError.
lookup_language(entry, language) ==
    IF entry.t = "list" THEN [err |-> "TypeError", list |-> <<>>]
    ELSE IF language \in DOMAIN entry.v
         THEN [err |-> "", list |-> entry.v[language]]
         ELSE [err |-> "KeyError", list |-> <<>>]

\* Only the variants that fit the output channel are rendered.
rendered_positions_by_channel(variants, output_channel) ==
    SelectSeq([i \in 1..Len(variants) |-> i],
              LAMBDA i : \/ is_channel_template(variants[i], output_channel)
                         \/ is_default_template(variants[i]))

\* The comprehension of generate_from_bf_template visits every variant of
\* the list, in order, whatever the output channel.
rendered_positions(variants, output_channel) == [i \in 1..Len(variants) |-> i]

RECURSIVE fill_each(_, _, _, _, _, _, _)
\* The list comprehension, from the j-th visited position on: each variant
\* is deep-copied and filled, the results are collected in order.
fill_each(acc, template_name, language, positions, j, filled_slots, kwargs) ==
    IF j > Len(positions) THEN acc
    ELSE LET source == CatalogObj(acc.templates, template_name, language, positions[j])
             f == _fill_template(acc.templates, deepcopy(source), filled_slots, kwargs)
         IN fill_each([templates |-> f.templates,
                       out |-> Append(acc.out, Dict(f.template.val)),
                       fills |-> Append(acc.fills, [source |-> source.loc] @@ f.fill)],
                      template_name, language, positions, j + 1, filled_slots, kwargs)

\* The list comprehension over the variants of the language: a failed
\* lookup propagates, else every variant is rendered into the result list.
render_language(tpls, template_name, language, filled_slots, output_channel, kwargs) ==
    LET found == lookup_language(tpls[template_name], language)
        done == fill_each([templates |-> tpls, out |-> <<>>, fills |-> <<>>],
                          template_name, language,
                          rendered_positions(found.list, output_channel),
                          1, filled_slots, kwargs)
    IN IF found.err # ""
       THEN Outcome(tpls, Raise(found.err), <<>>, <<>>)
       ELSE Outcome(done.templates, Return(List(done.out)), <<>>, done.fills)

\* The membership test comes first, the language test second.
generate_from_bf_template_name_first(tpls, template_name, filled_slots, output_channel, kwargs) ==
    LET language == language_of(kwargs)
    IN IF ~template_known(tpls, template_name)
       THEN Outcome(tpls, Return(NoneV), <<>>, <<>>)
       ELSE IF language_missing(language)
            THEN Outcome(tpls, Raise("InvalidNLGRequest"), <<>>, <<>>)
            ELSE render_language(tpls, template_name, language, filled_slots,
                                 output_channel, kwargs)

\* generate_from_bf_template: the language test, the membership test, the
\* rendering.
generate_from_bf_template(tpls, template_name, filled_slots, output_channel, kwargs) ==
    LET language == language_of(kwargs)
    IN IF language_missing(language)
       THEN Outcome(tpls, Raise("InvalidNLGRequest"), <<>>, <<>>)
       ELSE IF ~template_known(tpls, template_name)
            THEN Outcome(tpls, Return(NoneV), <<>>, <<>>)
            ELSE render_language(tpls, template_name, language, filled_slots,
                                 output_channel, kwargs)

\* `tracker.current_slot_values()`: the tracker is its mapping of slots.
current_slot_values(tracker) == Dict(tracker)

\* generate: the slot values of the tracker, then generate_from_bf_template.
generate(tpls, template_name, tracker, output_channel, kwargs) ==
    LET filled_slots == current_slot_values(tracker)
    IN generate_from_bf_template(tpls, template_name, filled_slots, output_channel, kwargs)

\* ------------------------------------------------------- inputs

\* The longest variant list of a catalog entry.
MaxVariants == 3

SeqsUpTo(S, n) == UNION {[1..m -> S] : m \in 0..n}

Reverse(s) == [i \in 1..Len(s) |-> s[Len(s) + 1 - i]]

ChannelA == Str(<<"A">>)

ChannelB == Str(<<"B">>)

English == Str(<<"en">>)

French == Str(<<"fr">>)

Ada == Str(<<"Ada">>)

Bob == Str(<<"Bob">>)

\* Variants of a channel-keyed entry: two for channel A, one for channel B,
\* one without a channel key, one whose channel is the empty string.
ChannelPool ==
    {[channel |-> ChannelA, text |-> Str(<<"Hello ", "{name}">>)],
     [channel |-> ChannelA, text |-> Str(<<"Hi ", "{name}", " in ", "{city}">>),
      metadata |-> Str(<<"{name}">>)],
     [channel |-> ChannelB, image |-> Str(<<"img/", "{name}">>),
      elements |-> List(<<Str(<<"{name}">>)>>)],
     [text |-> Str(<<"Welcome ", "{name}">>),
      quick_replies |-> List(<<Dict([title |-> Str(<<"Hi ", "{name}">>),
                                     payload |-> Str(<<"/greet">>)])>>),
      metadata |-> Str(<<"{name}">>)],
     [channel |-> Str(<<>>), text |-> Str(<<"Hey ", "{name}">>)]}

\* Variants of a language-keyed entry.
LanguagePool ==
    {[text |-> Str(<<"Bye ", "{name}">>), channel |-> ChannelA,
      metadata |-> Str(<<"{language}">>)],
     [text |-> Str(<<"(", "{language}", ") ", "{name}">>),
      custom |-> Dict([city |-> Str(<<"{city}">>)])]}

ChannelEntries == {List(s) : s \in SeqsUpTo(ChannelPool, MaxVariants)}

LanguageEntries ==
    {Dict(EmptyMap)}
    \cup {Dict(English :> s) : s \in SeqsUpTo(LanguagePool, MaxVariants)}
    \cup {Dict(English :> s @@ French :> Reverse(s)) :
            s \in SeqsUpTo(LanguagePool, MaxVariants)}

\* The catalogs a generator is constructed with: "utter_greet" is
\* channel-keyed, "utter_bye" language-keyed; one of the two varies.
Catalogs ==
    {[utter_greet |-> e,
      utter_bye |-> Dict(English :> <<CHOOSE v \in LanguagePool : "custom" \in DOMAIN v>>)] :
        e \in ChannelEntries}
    \cup {[utter_greet |-> List(<<CHOOSE v \in ChannelPool : "channel" \notin DOMAIN v>>),
           utter_bye |-> e] : e \in LanguageEntries}

TemplateNames == {"utter_greet", "utter_bye", "utter_unknown"}

\* The slot mappings of a tracker; an unset slot holds None.
Trackers == {EmptyMap, [name |-> Ada], [name |-> Ada, city |-> NoneV]}

SlotChoices == {NoneV} \cup {Dict(tr) : tr \in Trackers}

ChannelChoices == {ChannelA, ChannelB, NoneV}

KwargChoices ==
    {EmptyMap, [language |-> English], [language |-> French],
     [language |-> Str(<<>>)], [language |-> NoneV], [name |-> Bob],
     [language |-> English, name |-> Bob]}

\* ------------------------------------------------- state machine

Call(op, template_name, filled_slots, output_channel, kwargs) ==
    [op |-> op, template_name |-> template_name, filled_slots |-> filled_slots,
     output_channel |-> output_channel, kwargs |-> kwargs]

NoCall == Call("idle", "", NoneV, NoneV, EmptyMap)

\* __init__: the generator holds the catalog it is given.
Init ==
    /\ templates \in Catalogs
    /\ templates0 = templates
    /\ call = NoCall
    /\ result = NoResult
    /\ suitable_templates = <<>>
    /\ fills = <<>>

Finish(c, outcome) ==
    /\ call' = c
    /\ templates' = outcome.templates
    /\ result' = outcome.result
    /\ suitable_templates' = outcome.suitable_templates
    /\ fills' = outcome.fills
    /\ UNCHANGED templates0

Generate ==
    /\ call = NoCall
    /\ \E template_name \in TemplateNames, tracker \in Trackers,
          output_channel \in ChannelChoices, kwargs \in KwargChoices :
          Finish(Call("generate", template_name, current_slot_values(tracker),
                      output_channel, kwargs),
                 generate(templates, template_name, tracker, output_channel, kwargs))

GenerateFromBfTemplate ==
    /\ call = NoCall
    /\ \E template_name \in TemplateNames, filled_slots \in SlotChoices,
          output_channel \in ChannelChoices, kwargs \in KwargChoices :
          Finish(Call("generate_from_bf_template", template_name, filled_slots,
                      output_channel, kwargs),
                 generate_from_bf_template(templates, template_name, filled_slots,
                                           output_channel, kwargs))

GenerateFromSlots ==
    /\ call = NoCall
    /\ \E template_name \in TemplateNames, filled_slots \in SlotChoices,
          output_channel \in ChannelChoices, kwargs \in KwargChoices :
          \E outcome \in generate_from_slots(templates, template_name, filled_slots,
                                             output_channel, kwargs) :
             Finish(Call("generate_from_slots", template_name, filled_slots,
                         output_channel, kwargs), outcome)

\* The caller consumes the result (or handles the error); the generator
\* keeps nothing of the call but its catalog.
Consume ==
    /\ call # NoCall
    /\ call' = NoCall
    /\ result' = NoResult
    /\ suitable_templates' = <<>>
    /\ fills' = <<>>
    /\ UNCHANGED <<templates, templates0>>

Next ==
    \/ Generate
    \/ GenerateFromBfTemplate
    \/ GenerateFromSlots
    \/ Consume

Spec == Init /\ [][Next]_vars

\* ----------------------------------------------------- properties

\* The vocabulary of the properties, stated on the last call and on the
\* catalog the generator was constructed with.
LanguageKeyedCall == call.op \in {"generate", "generate_from_bf_template"}

LanguageGiven ==
    /\ "language" \in DOMAIN call.kwargs
    /\ call.kwargs["language"] \notin {NoneV, Str(<<>>)}

IdKnown == call.template_name \in DOMAIN templates0

\* The channel tag of a variant; a missing, null or empty tag is no tag.
Tag(variant) == IF "channel" \in DOMAIN variant THEN variant["channel"] ELSE NoneV

Untagged(variant) == Tag(variant) \in {NoneV, Str(<<>>)}

InterpolatableFields ==
    {"text", "image", "custom", "button", "attachment", "quick_replies"}

\* The variant of the constructed catalog that a filled template was copied from.
CatalogVariant(loc) ==
    IF templates0[loc.name].t = "list" THEN templates0[loc.name].v[loc.idx]
    ELSE templates0[loc.name].v[loc.key][loc.idx]

CallSlots == IF call.filled_slots = NoneV THEN EmptyMap ELSE call.filled_slots.v

\* The variants a call returned, in order.
Returned ==
    IF result.kind # "return" \/ result.val = NoneV THEN <<>>
    ELSE IF result.val.t = "list" THEN result.val.v ELSE <<result.val>>

\* C1 (as stated): for a response id absent from the catalog, every call of
\* either entry point returns None and raises nothing, also without a language.
C1_AbsentIdNeverRaises ==
    (call.op # "idle" /\ ~IdKnown) => result = Return(NoneV)

\* C1 (amended): for a response id absent from the catalog,
\* generate_from_slots always returns None; generate and
\* generate_from_bf_template return None when a non-empty language is given
\* and raise InvalidNLGRequest when it is not. No template is filled.
C1_AbsentId ==
    (call.op # "idle" /\ ~IdKnown) =>
        /\ fills = <<>>
        /\ result = IF LanguageKeyedCall /\ ~LanguageGiven
                    THEN Raise("InvalidNLGRequest")
                    ELSE Return(NoneV)

C1_Witness ==
    /\ call.op = "generate"
    /\ ~IdKnown
    /\ LanguageGiven
    /\ result = Return(NoneV)

\* C2: a call of generate or generate_from_bf_template without a language,
\* or with a null or empty one, raises InvalidNLGRequest and renders
\* nothing, whatever the response id, the slots and the channel.
C2_MissingLanguageRaises ==
    (LanguageKeyedCall /\ ~LanguageGiven) =>
        /\ result = Raise("InvalidNLGRequest")
        /\ fills = <<>>

C2_Witness ==
    /\ call.op = "generate"
    /\ IdKnown
    /\ "language" \in DOMAIN call.kwargs
    /\ call.kwargs["language"] = Str(<<>>)
    /\ result = Raise("InvalidNLGRequest")

\* C3: for a channel-keyed response id, the eligible list is the variants
\* tagged with the requested channel, in catalog order, when there is one,
\* and else the untagged variants, in catalog order; never both groups. A
\* variant returned while a variant of the requested channel exists carries
\* that channel.
C3_ChannelPrecedence ==
    (call.op = "generate_from_slots" /\ IdKnown
       /\ templates0[call.template_name].t = "list") =>
        LET entry == templates0[call.template_name].v
            matching == SelectSeq(entry, LAMBDA v : Tag(v) = call.output_channel)
            untagged == SelectSeq(entry, LAMBDA v : Untagged(v))
        IN /\ suitable_templates = IF matching # <<>> THEN matching ELSE untagged
           /\ result.kind = "return"
           /\ (result.val = NoneV) = (suitable_templates = <<>>)
           /\ \A i \in 1..Len(Returned) :
                 matching # <<>> => Tag(Returned[i].v) = call.output_channel

C3_Witness ==
    /\ call.op = "generate_from_slots"
    /\ IdKnown
    /\ templates0[call.template_name].t = "list"
    /\ call.output_channel = ChannelA
    /\ Len(templates0[call.template_name].v) = 3
    /\ Untagged(templates0[call.template_name].v[2])
    /\ Len(suitable_templates) = 2
    /\ suitable_templates[1] = templates0[call.template_name].v[1]
    /\ suitable_templates[2] = templates0[call.template_name].v[3]
    /\ suitable_templates[1] # suitable_templates[2]
    /\ Len(Returned) = 1

\* C4: generate_from_slots never returns a variant tagged with a channel
\* other than the requested one; when every variant of the response id is
\* tagged with another channel, the call returns None and raises nothing.
C4_OtherChannelExcluded ==
    (call.op = "generate_from_slots") =>
        LET Other(v) == ~Untagged(v) /\ Tag(v) # call.output_channel
        IN /\ \A i \in 1..Len(Returned) : ~Other(Returned[i].v)
           /\ \A i \in 1..Len(suitable_templates) : ~Other(suitable_templates[i])
           /\ (IdKnown /\ templates0[call.template_name].t = "list"
                 /\ \A i \in 1..Len(templates0[call.template_name].v) :
                       Other(templates0[call.template_name].v[i]))
              => result = Return(NoneV)

C4_Witness ==
    /\ call.op = "generate_from_slots"
    /\ IdKnown
    /\ templates0[call.template_name].t = "list"
    /\ call.output_channel = ChannelA
    /\ Len(templates0[call.template_name].v) = 2
    /\ \A i \in 1..2 : Tag(templates0[call.template_name].v[i]) = ChannelB
    /\ result = Return(NoneV)

\* C5: after any sequence of calls, failed or not, the catalog is the one
\* the generator was constructed with, every template filled was an equal
\* copy of its catalog variant, and what is returned is the filled copy.
C5_CatalogNeverMutated ==
    /\ templates = templates0
    /\ \A i \in 1..Len(fills) :
          /\ fills[i].given = CatalogVariant(fills[i].source)
          /\ Returned[i] = Dict(fills[i].out)
    /\ Len(Returned) = Len(fills)

C5_Witness ==
    /\ templates = templates0
    /\ Len(fills) = 2
    /\ \A i \in 1..2 : fills[i].out # CatalogVariant(fills[i].source)

\* C6: the merged mapping of a render call has the slot names and the
\* keyword names as keys; a keyword name maps to the keyword value, also
\* when a slot has that name; any other name maps to its slot value; a null
\* slot mapping counts as empty.
C6_OverridesWin ==
    \A i \in 1..Len(fills) :
        LET merged == fills[i].template_vars
        IN /\ DOMAIN merged = DOMAIN CallSlots \cup DOMAIN call.kwargs
           /\ \A k \in DOMAIN call.kwargs : merged[k] = call.kwargs[k]
           /\ \A k \in DOMAIN CallSlots \ DOMAIN call.kwargs : merged[k] = CallSlots[k]

C6_Witness ==
    /\ Len(fills) > 0
    /\ "name" \in DOMAIN CallSlots
    /\ CallSlots["name"] = Ada
    /\ "name" \in DOMAIN call.kwargs
    /\ call.kwargs["name"] = Bob
    /\ "city" \in DOMAIN CallSlots
    /\ fills[1].template_vars["name"] = Bob
    /\ fills[1].template_vars["city"] = NoneV

\* C7: for a known response id and a language its entry has, generate and
\* generate_from_bf_template return one rendered variant per variant of
\* catalog[id][language], the i-th being the rendering of the i-th, and the
\* same list for every output channel.
C7_OnePerVariantInOrder ==
    (LanguageKeyedCall /\ LanguageGiven /\ IdKnown
       /\ templates0[call.template_name].t = "dict"
       /\ call.kwargs["language"] \in DOMAIN templates0[call.template_name].v) =>
        LET variants == templates0[call.template_name].v[call.kwargs["language"]]
            merged == [k \in DOMAIN CallSlots \cup DOMAIN call.kwargs |->
                         IF k \in DOMAIN call.kwargs THEN call.kwargs[k]
                         ELSE CallSlots[k]]
        IN /\ result.kind = "return"
           /\ result.val.t = "list"
           /\ Len(result.val.v) = Len(variants)
           /\ \A i \in 1..Len(variants) :
                 /\ DOMAIN result.val.v[i].v = DOMAIN variants[i]
                 /\ \A f \in DOMAIN variants[i] :
                       result.val.v[i].v[f] =
                           IF f \in InterpolatableFields
                           THEN interpolate(variants[i][f], merged)
                           ELSE variants[i][f]
           /\ \A output_channel \in ChannelChoices :
                 generate_from_bf_template(templates, call.template_name,
                     call.filled_slots, output_channel, call.kwargs).result = result

C7_Witness ==
    /\ call.op = "generate_from_bf_template"
    /\ LanguageGiven
    /\ IdKnown
    /\ templates0[call.template_name].t = "dict"
    /\ call.kwargs["language"] \in DOMAIN templates0[call.template_name].v
    /\ call.output_channel = ChannelB
    /\ Len(Returned) = 3
    /\ Tag(Returned[1].v) = NoneV
    /\ Tag(Returned[2].v) = ChannelA
    /\ Returned[2] # Dict(templates0[call.template_name].v[call.kwargs["language"]][2])

\* C8: a returned variant has the field names of the catalog variant it was
\* copied from, every field outside text, image, custom, button,
\* attachment and quick_replies (the channel tag too) keeps its catalog
\* value, and only fields that are present and in that set are interpolated.
C8_OtherFieldsPassThrough ==
    /\ Len(Returned) = Len(fills)
    /\ \A i \in 1..Len(fills) :
          LET variant == CatalogVariant(fills[i].source)
              returned == Returned[i].v
          IN /\ DOMAIN returned = DOMAIN variant
             /\ \A f \in DOMAIN variant \ InterpolatableFields :
                   returned[f] = variant[f]
             /\ fills[i].keys \subseteq InterpolatableFields \cap DOMAIN variant

C8_Witness ==
    /\ Len(fills) = 1
    /\ "metadata" \in DOMAIN CatalogVariant(fills[1].source)
    /\ "channel" \in DOMAIN CatalogVariant(fills[1].source)
    /\ "name" \in DOMAIN fills[1].template_vars
    /\ Returned[1].v["text"] # CatalogVariant(fills[1].source)["text"]
    /\ Returned[1].v["metadata"] = Str(<<"{name}">>)

\* C9: with no slot value and no keyword argument the interpolator is given
\* no field and the returned variant equals the selected catalog variant;
\* with any, it is given every interpolatable field the variant has.
C9_EmptyMappingSkips ==
    \A i \in 1..Len(fills) :
        LET variant == CatalogVariant(fills[i].source)
        IN IF DOMAIN CallSlots = {} /\ DOMAIN call.kwargs = {}
           THEN /\ fills[i].keys = {}
                /\ fills[i].template_vars = EmptyMap
                /\ Returned[i] = Dict(variant)
           ELSE /\ fills[i].keys = InterpolatableFields \cap DOMAIN variant
                /\ \A f \in fills[i].keys :
                      Returned[i].v[f] = interpolate(variant[f], fills[i].template_vars)

C9_Witness ==
    /\ call.op = "generate_from_slots"
    /\ call.filled_slots = NoneV
    /\ call.kwargs = EmptyMap
    /\ Len(fills) = 1
    /\ "text" \in DOMAIN CatalogVariant(fills[1].source)
    /\ Returned[1] = Dict(CatalogVariant(fills[1].source))

\* C10: when the response id is known but its language-keyed entry has no
\* list for the requested non-empty language, generate and
\* generate_from_bf_template raise KeyError and render nothing; they return
\* None only for a response id missing from the catalog.
C10_UnknownLanguageRaises ==
    LanguageKeyedCall =>
        /\ (LanguageGiven /\ IdKnown /\ templates0[call.template_name].t = "dict"
              /\ call.kwargs["language"] \notin DOMAIN templates0[call.template_name].v)
           => (result = Raise("KeyError") /\ fills = <<>>)
        /\ result = Return(NoneV) => ~IdKnown

C10_Witness ==
    /\ call.op = "generate"
    /\ IdKnown
    /\ templates0[call.template_name].t = "dict"
    /\ DOMAIN templates0[call.template_name].v = {English}
    /\ LanguageGiven
    /\ call.kwargs["language"] = French
    /\ result = Raise("KeyError")

====
